---- MODULE Spec2Model ----
(***************************************************************************)
(* Model of parse_qb, the question-block classifier of qb_to_anki_7.py,    *)
(* and of the App handlers that parse the input and send the card.         *)
(*                                                                         *)
(* A Python str is a sequence of characters.  An ASCII character is the    *)
(* one-character string itself; any other character is written by its      *)
(* code point, "uXXXX" (U+6B63 is "u6B63").  The input alphabet has "\n"   *)
(* as its only line boundary: the text comes from a tk Text widget.        *)
(***************************************************************************)
EXTENDS Naturals, Sequences, FiniteSets

\* text         the argument of parse_qb (line 82)
\* pc           where parse_qb is: "start" (line 83), "loop" (line 99), "done"
\* before       text[:explain_match.start()], or text (lines 85, 91)
\* explanation  the filtered, joined and stripped after-lines (lines 87-92)
\* lines        before.splitlines() (line 94)
\* i            the position of the for loop in lines (line 99), from 1
\* question     the running question buffer (lines 95, 110)
\* choices      the list of choices (lines 96, 108)
\* correct      the correct-answer token, "" as <<>> (lines 97, 105)
\* ret          <<>> until parse_qb returns, then <<the returned dict>> (line 112)
VARIABLES text, pc, before, explanation, lines, i, question, choices, correct, ret

\* The App (None is <<>>, a value v is <<v>>):
\* txt_input    the content of the input Text widget (line 447)
\* parsed       App._parsed (line 369): None or the dict parse_qb returned
\* img_front    App._img_front (line 370): None or the ImagePanel, a record with
\*              image, the panel's _image (line 265): None or an image
\* img_back     App._img_back (line 371), likewise
\* edit_vars    App._edit_vars (line 588): absent, or the content of the three
\*              edit widgets
\* nb           the selected tab of the notebook, 0 or 1 (lines 518, 650)
\* lbl_result   the text of lbl_result (lines 495, 647, 652): "", "ok" or "fail"
\* lbl_status   the text of lbl_status (lines 430, 502, 504): "unchecked", "ok"
\*              or "failed"
\* last         history: the handler that ran last; for _send_to_anki the
\*              AnkiConnect requests it issued in order, how it ended, the
\*              model name it looked up, the record and the images it used
\* fresh_front  history: the front panel's image was attached after the last
\*              _do_parse that parsed
\* fresh_back   history: likewise for the back panel
\* adds         history: the addNote requests that succeeded since the last
\*              _do_parse that parsed
VARIABLES txt_input, parsed, img_front, img_back, edit_vars, nb, lbl_result,
          lbl_status,
          last, fresh_front, fresh_back, adds

pvars == <<text, pc, before, explanation, lines, i, question, choices, correct, ret>>

appvars == <<txt_input, parsed, img_front, img_back, edit_vars, nb, lbl_result,
             lbl_status,
             last, fresh_front, fresh_back, adds>>

vars == <<pvars, appvars>>

\* The App as __init__ leaves it (lines 369-371), nothing typed, no handler run.
AppInit ==
  /\ txt_input = <<>>
  /\ parsed = <<>>
  /\ img_front = <<>>
  /\ img_back = <<>>
  /\ edit_vars = <<>>
  /\ nb = 0
  /\ lbl_result = ""
  /\ lbl_status = "unchecked"
  /\ last = [op |-> "init", outcome |-> "", model_name |-> "", requests |-> <<>>,
             p |-> <<>>,
             img_f |-> <<>>, img_b |-> <<>>, fresh_f |-> FALSE, fresh_b |-> FALSE]
  /\ fresh_front = FALSE
  /\ fresh_back = FALSE
  /\ adds = 0

(***************************************************************************)
(* Characters and character classes                                        *)
(***************************************************************************)
NL == "\n"

\* str.strip() and the regex class \s agree on the whitespace of the alphabet:
\* space, tab, newline and the ideographic space U+3000.
Whitespace == {" ", "\t", NL, "u3000"}

\* \d of a str pattern: the ASCII digits and the full-width digits U+FF10..U+FF19.
Digits ==
  {"0", "1", "2", "3", "4", "5", "6", "7", "8", "9",
   "uFF10", "uFF11", "uFF12", "uFF13", "uFF14",
   "uFF15", "uFF16", "uFF17", "uFF18", "uFF19"}

AsciiLower ==
  <<"a", "b", "c", "d", "e", "f", "g", "h", "i", "j", "k", "l", "m",
    "n", "o", "p", "q", "r", "s", "t", "u", "v", "w", "x", "y", "z">>

AsciiUpper ==
  <<"A", "B", "C", "D", "E", "F", "G", "H", "I", "J", "K", "L", "M",
    "N", "O", "P", "Q", "R", "S", "T", "U", "V", "W", "X", "Y", "Z">>

\* U+FF41..U+FF5A, full-width a..z
FullLower ==
  <<"uFF41", "uFF42", "uFF43", "uFF44", "uFF45", "uFF46", "uFF47",
    "uFF48", "uFF49", "uFF4A", "uFF4B", "uFF4C", "uFF4D", "uFF4E",
    "uFF4F", "uFF50", "uFF51", "uFF52", "uFF53", "uFF54", "uFF55",
    "uFF56", "uFF57", "uFF58", "uFF59", "uFF5A">>

\* U+FF21..U+FF3A, full-width A..Z
FullUpper ==
  <<"uFF21", "uFF22", "uFF23", "uFF24", "uFF25", "uFF26", "uFF27",
    "uFF28", "uFF29", "uFF2A", "uFF2B", "uFF2C", "uFF2D", "uFF2E",
    "uFF2F", "uFF30", "uFF31", "uFF32", "uFF33", "uFF34", "uFF35",
    "uFF36", "uFF37", "uFF38", "uFF39", "uFF3A">>

Range(s) == {s[k] : k \in 1..Len(s)}

IndexOf(c, s) == CHOOSE k \in 1..Len(s) : s[k] = c

\* Words of the patterns, as character sequences.
SEIKAI    == <<"u6B63", "u89E3">>                    \* "correct answer"
KAISETSU  == <<"u89E3", "u8AAC">>                    \* "explanation"
KIJUNCHI  == <<"u57FA", "u6E96", "u5024">>           \* "reference range"
RETRY     == <<"u30EA", "u30C8", "u30E9", "u30A4">>  \* "retry"
KEISAI    == <<"[", "u63B2", "u8F09", "u9801">>      \* "[listed on page"
KAITOU    == <<"u89E3", "u7B54">>                    \* "answer"
KEKKA     == <<"u7D50", "u679C">>                    \* "result"
RIREKI    == <<"u5C65", "u6B74">>                    \* "history"
JIBUN     == <<"u81EA", "u5206", "u304C", "u767B", "u9332">>  \* "self-registered"
FUSEIKAI  == <<"u4E0D", "u6B63", "u89E3">>           \* "incorrect"
GUIDELINE == <<"u30AC", "u30A4", "u30C9", "u30E9", "u30A4", "u30F3">>
KIHON     == <<"u57FA", "u672C", "u4E8B", "u9805", "u306A", "u3069">>  \* "basics, etc."

Colons  == {":", "uFF1A"}         \* [:U+FF1A]
Circles == {"u25CB", "u25EF"}     \* the two circle marks
Crosses == {"u00D7", "x"}         \* the multiplication sign and x

\* The class [aA(U+FF41)-(U+FF45)a-eA-E(U+FF11)-(U+FF15)1-5(U+2460)-(U+2464)]
\* as CHOICE_RE compiles it (case-sensitive).
ChoiceTokens ==
  {"a", "b", "c", "d", "e", "A", "B", "C", "D", "E",
   "uFF41", "uFF42", "uFF43", "uFF44", "uFF45",
   "uFF11", "uFF12", "uFF13", "uFF14", "uFF15",
   "1", "2", "3", "4", "5",
   "u2460", "u2461", "u2462", "u2463", "u2464"}

\* The same class under re.IGNORECASE: the full-width capitals U+FF21..U+FF25
\* are the case partners of U+FF41..U+FF45.
CorrectTokens == ChoiceTokens \cup {"uFF21", "uFF22", "uFF23", "uFF24", "uFF25"}

(***************************************************************************)
(* str helpers                                                             *)
(***************************************************************************)
RECURSIVE lstrip(_)
lstrip(s) == IF s = <<>> \/ Head(s) \notin Whitespace THEN s ELSE lstrip(Tail(s))

RECURSIVE rstrip(_)
rstrip(s) ==
  IF s = <<>> \/ s[Len(s)] \notin Whitespace THEN s
  ELSE rstrip(SubSeq(s, 1, Len(s) - 1))

strip(s) == lstrip(rstrip(s))

\* str.splitlines(): the pieces between newlines, a final empty piece dropped.
RECURSIVE splitlines(_)
splitlines(s) ==
  IF s = <<>> THEN <<>>
  ELSE LET nls == {k \in 1..Len(s) : s[k] = NL}
       IN  IF nls = {} THEN <<s>>
           ELSE LET k == CHOOSE n \in nls : \A m \in nls : n <= m
                IN  <<SubSeq(s, 1, k - 1)>> \o splitlines(SubSeq(s, k + 1, Len(s)))

\* "\n".join(ls)
RECURSIVE join(_)
join(ls) ==
  IF ls = <<>> THEN <<>>
  ELSE IF Len(ls) = 1 THEN ls[1]
  ELSE ls[1] \o <<NL>> \o join(Tail(ls))

(***************************************************************************)
(* Regular-expression steps                                                *)
(***************************************************************************)
\* The position after the longest run of characters of class C that starts at p.
RunEnd(s, p, C) ==
  IF p > Len(s) THEN p
  ELSE LET stops == {q \in p..(Len(s) + 1) : q = Len(s) + 1 \/ s[q] \notin C}
       IN  CHOOSE q \in stops : \A r \in stops : q <= r

\* The literal w at position p.
LitAt(s, p, w) == p + Len(w) - 1 <= Len(s) /\ SubSeq(s, p, p + Len(w) - 1) = w

\* A character of class C at position p.
ClassAt(s, p, C) == p <= Len(s) /\ s[p] \in C

\* $ without re.MULTILINE: the end, or just before a final newline.
AtEnd(s, p) == p = Len(s) + 1 \/ (p = Len(s) /\ s[p] = NL)

\* $ with re.MULTILINE: the end, or just before any newline.
AtLineEnd(s, p) == p = Len(s) + 1 \/ (p <= Len(s) /\ s[p] = NL)

\* ^ with re.MULTILINE: the start, or just after any newline.
AtLineStart(s, p) == IF p = 1 THEN TRUE ELSE s[p - 1] = NL

(***************************************************************************)
(* NOISE_PATTERNS: each pattern is tried with Pattern.match, anchored at   *)
(* the start of the stripped line.                                         *)
(***************************************************************************)
\* ^\d{4}\s+\d+-\d+
NOISE_01(s) ==
  /\ \A k \in 1..4 : ClassAt(s, k, Digits)
  /\ LET b == RunEnd(s, 5, Whitespace)
         c == RunEnd(s, b, Digits)
     IN  /\ b > 5
         /\ c > b
         /\ ClassAt(s, c, {"-"})
         /\ ClassAt(s, c + 1, Digits)

\* ^(reference range)$
NOISE_02(s) == LitAt(s, 1, KIJUNCHI) /\ AtEnd(s, Len(KIJUNCHI) + 1)

\* ^\d+-\d+$
NOISE_03(s) ==
  LET a == RunEnd(s, 1, Digits)
      b == RunEnd(s, a + 1, Digits)
  IN  /\ a > 1
      /\ ClassAt(s, a, {"-"})
      /\ b > a + 1
      /\ AtEnd(s, b)

\* ^(retry)$
NOISE_04(s) == LitAt(s, 1, RETRY) /\ AtEnd(s, Len(RETRY) + 1)

\* ^\[(listed on page)
NOISE_05(s) == LitAt(s, 1, KEISAI)

\* ^ID\s*:
NOISE_06(s) == LitAt(s, 1, <<"I", "D">>) /\ ClassAt(s, RunEnd(s, 3, Whitespace), {":"})

\* ^word[:U+FF1A]?\s*$ for the two label words
LabelLine(s, w) ==
  /\ LitAt(s, 1, w)
  /\ LET p == IF ClassAt(s, Len(w) + 1, Colons) THEN Len(w) + 2 ELSE Len(w) + 1
     IN  RunEnd(s, p, Whitespace) = Len(s) + 1

\* ^(answer)[:U+FF1A]?\s*$
NOISE_07(s) == LabelLine(s, KAITOU)

\* ^(result)[:U+FF1A]?\s*$
NOISE_08(s) == LabelLine(s, KEKKA)

\* ^(history)
NOISE_09(s) == LitAt(s, 1, RIREKI)

\* ^(self-registered)
NOISE_10(s) == LitAt(s, 1, JIBUN)

\* ^\d{4}/\d{1,2}/\d{1,2}
NOISE_11(s) ==
  /\ \A k \in 1..4 : ClassAt(s, k, Digits)
  /\ ClassAt(s, 5, {"/"})
  /\ ClassAt(s, 6, Digits)
  /\ LET m == IF ClassAt(s, 7, Digits) THEN 8 ELSE 7
     IN  ClassAt(s, m, {"/"}) /\ ClassAt(s, m + 1, Digits)

\* ^\*\s*$
NOISE_12(s) == ClassAt(s, 1, {"*"}) /\ RunEnd(s, 2, Whitespace) = Len(s) + 1

\* .*[circle]\s*(correct answer): the circle mark anywhere on the first line
NOISE_13(s) ==
  \E p \in 1..Len(s) :
    /\ \A r \in 1..(p - 1) : s[r] # NL
    /\ s[p] \in Circles
    /\ LitAt(s, RunEnd(s, p + 1, Whitespace), SEIKAI)

\* ^[cross x]\s*(incorrect)
NOISE_14(s) == ClassAt(s, 1, Crosses) /\ LitAt(s, RunEnd(s, 2, Whitespace), FUSEIKAI)

\* ^(guideline)$
NOISE_15(s) == LitAt(s, 1, GUIDELINE) /\ AtEnd(s, Len(GUIDELINE) + 1)

\* ^(basics, etc.)
NOISE_16(s) == LitAt(s, 1, KIHON)

\* any(p.match(line.strip()) for p in NOISE_PATTERNS), with the pattern of the
\* bare asterisk left out of the list
is_noise_NoAsterisk(line) ==
  LET s == strip(line)
  IN  \/ NOISE_01(s) \/ NOISE_02(s) \/ NOISE_03(s) \/ NOISE_04(s)
      \/ NOISE_05(s) \/ NOISE_06(s) \/ NOISE_07(s) \/ NOISE_08(s)
      \/ NOISE_09(s) \/ NOISE_10(s) \/ NOISE_11(s)
      \/ NOISE_13(s) \/ NOISE_14(s) \/ NOISE_15(s) \/ NOISE_16(s)

\* any(p.match(line.strip()) for p in NOISE_PATTERNS)
is_noise(line) ==
  LET s == strip(line)
  IN  \/ NOISE_01(s) \/ NOISE_02(s) \/ NOISE_03(s) \/ NOISE_04(s)
      \/ NOISE_05(s) \/ NOISE_06(s) \/ NOISE_07(s) \/ NOISE_08(s)
      \/ NOISE_09(s) \/ NOISE_10(s) \/ NOISE_11(s) \/ NOISE_12(s)
      \/ NOISE_13(s) \/ NOISE_14(s) \/ NOISE_15(s) \/ NOISE_16(s)

(***************************************************************************)
(* CHOICE_RE, CORRECT_RE, to_half                                          *)
(***************************************************************************)
\* CHOICE_RE.match(line): ^\*\s*[token]\s
CHOICE_RE(line) ==
  /\ ClassAt(line, 1, {"*"})
  /\ LET q == RunEnd(line, 2, Whitespace)
     IN  ClassAt(line, q, ChoiceTokens) /\ ClassAt(line, q + 1, Whitespace)

\* Where group 1 of CORRECT_RE starts: ^(correct answer)[:U+FF1A]?\s*([token])
CorrectTokenAt(line) ==
  RunEnd(line, IF ClassAt(line, 3, Colons) THEN 4 ELSE 3, Whitespace)

\* CORRECT_RE.match(line), as a truth value
CORRECT_RE(line) ==
  LitAt(line, 1, SEIKAI) /\ ClassAt(line, CorrectTokenAt(line), CorrectTokens)

\* cm.group(1)
CorrectGroup(line) == line[CorrectTokenAt(line)]

\* to_half with the range of the full-width capitals left out
to_half_LowerOnly(c) ==
  IF c \in Range(FullLower) THEN AsciiLower[IndexOf(c, FullLower)] ELSE c

\* to_half(c): only the full-width letters a..z and A..Z are shifted by 0xFEE0
to_half(c) ==
  IF c \in Range(FullLower) THEN AsciiLower[IndexOf(c, FullLower)]
  ELSE IF c \in Range(FullUpper) THEN AsciiUpper[IndexOf(c, FullUpper)]
  ELSE c

\* str.upper() of one character of the alphabet
upper(c) ==
  IF c \in Range(AsciiLower) THEN AsciiUpper[IndexOf(c, AsciiLower)]
  ELSE IF c \in Range(FullLower) THEN FullUpper[IndexOf(c, FullLower)]
  ELSE c

\* re.sub(r"^\*\s*", "", line), with the \s* left out of the pattern
sub_marker_KeepSpace(line) ==
  IF ClassAt(line, 1, {"*"}) THEN SubSeq(line, 2, Len(line)) ELSE line

\* re.sub(r"^\*\s*", "", line)
sub_marker(line) ==
  IF ClassAt(line, 1, {"*"})
  THEN SubSeq(line, RunEnd(line, 2, Whitespace), Len(line))
  ELSE line

(***************************************************************************)
(* re.search(r"^(explanation)\s*$", text, re.MULTILINE)                    *)
(***************************************************************************)
\* Where the match that starts at p ends: \s* is greedy and may run over
\* newlines, and gives back characters until $ holds.
MarkerEnd(s, p) ==
  LET from == p + Len(KAISETSU)
      ends == {e \in from..RunEnd(s, from, Whitespace) : AtLineEnd(s, e)}
  IN  CHOOSE e \in ends : \A f \in ends : f <= e

\* The pattern matches at p.
MarkerAt(s, p) ==
  /\ AtLineStart(s, p)
  /\ LitAt(s, p, KAISETSU)
  /\ \E e \in (p + Len(KAISETSU))..RunEnd(s, p + Len(KAISETSU), Whitespace) :
       AtLineEnd(s, e)

\* explain_match: no match is <<>>; a match is the leftmost one, with start the
\* position of its first character and end the position after its last (the
\* code's offsets are 0-based, these are 1-based)
explain_match(s) ==
  LET at == {p \in 1..Len(s) : MarkerAt(s, p)}
  IN  IF at = {} THEN <<>>
      ELSE LET p == CHOOSE q \in at : \A r \in at : q <= r
           IN  <<[start |-> p, end |-> MarkerEnd(s, p)]>>

\* "\n".join(l for l in expl_lines), the filter left out
explanation_join_NoFilter(expl_lines) == strip(join(expl_lines))

\* "\n".join(l for l in expl_lines if l.strip() and not is_noise(l)).strip()
explanation_join(expl_lines) ==
  LET keep(l) == strip(l) # <<>> /\ ~is_noise(l)
  IN  strip(join(SelectSeq(expl_lines, keep)))

(***************************************************************************)
(* Inputs: every text of at most MaxLines lines of the catalogue           *)
(***************************************************************************)
MaxLines == 3

Catalogue ==
  << <<>>,                                                \* an empty line
     <<" ">>,                                             \* a blank line
     <<"Q">>,                                             \* prose
     <<" ", "R", " ">>,                                   \* prose inside spaces
     RETRY,                                               \* noise
     <<"*">>,                                             \* noise: a bare asterisk
     <<"*", " ", "a", " ", "u25CB">> \o SEIKAI,           \* noise and choice
     SEIKAI \o <<"uFF1A", "a", "u25CB">> \o SEIKAI,       \* noise and correct answer
     SEIKAI \o <<"uFF1A", "b">>,                          \* correct answer b
     SEIKAI \o <<"uFF21">>,                               \* correct answer U+FF21
     SEIKAI \o <<":", " ", "uFF11">>,                     \* correct answer U+FF11
     <<"*", " ", "a", " ", "x">>,                         \* choice a
     <<" ", "*", "uFF45", " ", "y">>,                     \* choice U+FF45
     <<"*", " ", "uFF21", " ", "z">>,                     \* enumerator U+FF21
     KAISETSU,                                            \* the marker
     KAISETSU \o <<" ">>,                                 \* the marker, then a space
     <<" ">> \o KAISETSU >>                               \* a space, then the marker

Texts ==
  UNION {{join([k \in 1..n |-> Catalogue[f[k]]]) : f \in [1..n -> 1..Len(Catalogue)]} :
         n \in 0..MaxLines}

(***************************************************************************)
(* parse_qb, one step per branch                                           *)
(***************************************************************************)
Init ==
  /\ text \in Texts
  /\ pc = "start"
  /\ before = <<>>
  /\ explanation = <<>>
  /\ lines = <<>>
  /\ i = 1
  /\ question = <<>>
  /\ choices = <<>>
  /\ correct = <<>>
  /\ ret = <<>>
  /\ AppInit

\* The marker is found: before, expl_lines, explanation, then the loop's locals.
SplitFound ==
  /\ pc = "start"
  /\ explain_match(text) # <<>>
  /\ LET m == explain_match(text)[1]
         expl_lines == splitlines(SubSeq(text, m.end, Len(text)))
     IN  /\ before' = SubSeq(text, 1, m.start - 1)
         /\ explanation' = explanation_join(expl_lines)
         /\ lines' = splitlines(SubSeq(text, 1, m.start - 1))
  /\ i' = 1
  /\ question' = <<>>
  /\ choices' = <<>>
  /\ correct' = <<>>
  /\ pc' = "loop"
  /\ UNCHANGED <<text, ret>>
  /\ UNCHANGED appvars

\* No marker: the whole text is before.
SplitNotFound ==
  /\ pc = "start"
  /\ explain_match(text) = <<>>
  /\ before' = text
  /\ explanation' = <<>>
  /\ lines' = splitlines(text)
  /\ i' = 1
  /\ question' = <<>>
  /\ choices' = <<>>
  /\ correct' = <<>>
  /\ pc' = "loop"
  /\ UNCHANGED <<text, ret>>
  /\ UNCHANGED appvars

\* line = raw.strip() of the line the loop is at
line == strip(lines[i])

InLoop == pc = "loop" /\ i <= Len(lines)

\* "if not line: continue", the noise test left out
IsSkipped_BlankOnly(l) == l = <<>>

\* if not line or is_noise(line): continue
IsSkipped(l) == l = <<>> \/ is_noise(l)

\* The branch of the loop body that a stripped line takes: the tests in the
\* order of the code, each ending in continue
Branch(l) ==
  IF IsSkipped(l) THEN "skip"
  ELSE IF CORRECT_RE(l) THEN "correct"
  ELSE IF CHOICE_RE(l) THEN "choice"
  ELSE "question"

LoopSkip ==
  /\ InLoop
  /\ Branch(line) = "skip"
  /\ i' = i + 1
  /\ UNCHANGED <<text, pc, before, explanation, lines, question, choices, correct, ret>>
  /\ UNCHANGED appvars

\* The correct-answer branch keeping the first answer it meets
LoopCorrect_FirstWins ==
  /\ InLoop
  /\ Branch(line) = "correct"
  /\ correct' = IF correct = <<>> THEN <<upper(to_half(CorrectGroup(line)))>> ELSE correct
  /\ i' = i + 1
  /\ UNCHANGED <<text, pc, before, explanation, lines, question, choices, ret>>
  /\ UNCHANGED appvars

\* cm = CORRECT_RE.match(line); if cm: correct = to_half(cm.group(1)).upper()
LoopCorrect ==
  /\ InLoop
  /\ Branch(line) = "correct"
  /\ correct' = <<upper(to_half(CorrectGroup(line)))>>
  /\ i' = i + 1
  /\ UNCHANGED <<text, pc, before, explanation, lines, question, choices, ret>>
  /\ UNCHANGED appvars

\* question += ("\n" if question else "") + line
question_add(q, l) == IF q # <<>> THEN q \o <<NL>> \o l ELSE l

\* The choice branch with its continue left out: the line also joins question
LoopChoice_NoContinue ==
  /\ InLoop
  /\ Branch(line) = "choice"
  /\ choices' = Append(choices, sub_marker(line))
  /\ question' = question_add(question, line)
  /\ i' = i + 1
  /\ UNCHANGED <<text, pc, before, explanation, lines, correct, ret>>
  /\ UNCHANGED appvars

\* if CHOICE_RE.match(line): choices.append(re.sub(...)); continue
LoopChoice ==
  /\ InLoop
  /\ Branch(line) = "choice"
  /\ choices' = Append(choices, sub_marker(line))
  /\ i' = i + 1
  /\ UNCHANGED <<text, pc, before, explanation, lines, question, correct, ret>>
  /\ UNCHANGED appvars

\* The fall-through branch putting the new line in front
LoopQuestion_Prepend ==
  /\ InLoop
  /\ Branch(line) = "question"
  /\ question' = question_add(line, question)
  /\ i' = i + 1
  /\ UNCHANGED <<text, pc, before, explanation, lines, choices, correct, ret>>
  /\ UNCHANGED appvars

\* The fall-through: the line is question prose
LoopQuestion ==
  /\ InLoop
  /\ Branch(line) = "question"
  /\ question' = question_add(question, line)
  /\ i' = i + 1
  /\ UNCHANGED <<text, pc, before, explanation, lines, choices, correct, ret>>
  /\ UNCHANGED appvars

\* return {"question": question.strip(), ...}
Return ==
  /\ pc = "loop"
  /\ i > Len(lines)
  /\ ret' = <<[question |-> strip(question), choices |-> choices,
               correct |-> correct, explanation |-> explanation]>>
  /\ pc' = "done"
  /\ UNCHANGED <<text, before, explanation, lines, i, question, choices, correct>>
  /\ UNCHANGED appvars

Next ==
  \/ SplitFound
  \/ SplitNotFound
  \/ LoopSkip
  \/ LoopCorrect
  \/ LoopChoice
  \/ LoopQuestion
  \/ Return

Spec == Init /\ [][Next]_vars

\* parse_qb has returned, and what it returned
Returned == pc = "done"

R == ret[1]

(***************************************************************************)
(* What the properties are stated with                                     *)
(***************************************************************************)
\* The lines of s: the pieces between its newlines, the last one included.
Pieces(s) ==
  LET cuts == {0} \cup {k \in 1..Len(s) : s[k] = NL} \cup {Len(s) + 1}
      Cut(j) == CHOOSE c \in cuts : Cardinality({d \in cuts : d < c}) = j - 1
  IN  [j \in 1..(Cardinality(cuts) - 1) |-> SubSeq(s, Cut(j) + 1, Cut(j + 1) - 1)]

\* Each line of ls trimmed.
Trimmed(ls) == [k \in 1..Len(ls) |-> strip(ls[k])]

\* The trimmed lines of s that the loop classifies: neither blank nor noise.
Surviving(s) ==
  LET keep(l) == l # <<>> /\ ~is_noise(l)
  IN  SelectSeq(Trimmed(Pieces(s)), keep)

\* The half-width capital of a letter token; a digit token as it is.
LetterTokens == {"a", "b", "c", "d", "e", "A", "B", "C", "D", "E",
                 "uFF41", "uFF42", "uFF43", "uFF44", "uFF45",
                 "uFF21", "uFF22", "uFF23", "uFF24", "uFF25"}

DigitTokens == {"1", "2", "3", "4", "5",
                "uFF11", "uFF12", "uFF13", "uFF14", "uFF15",
                "u2460", "u2461", "u2462", "u2463", "u2464"}

CapitalOf(c) ==
  IF c \in {"a", "A", "uFF41", "uFF21"} THEN "A"
  ELSE IF c \in {"b", "B", "uFF42", "uFF22"} THEN "B"
  ELSE IF c \in {"c", "C", "uFF43", "uFF23"} THEN "C"
  ELSE IF c \in {"d", "D", "uFF44", "uFF24"} THEN "D"
  ELSE IF c \in {"e", "E", "uFF45", "uFF25"} THEN "E"
  ELSE c

\* The half-width characters that are their own capital: A-Z and 0-9.
HalfWidthUpper ==
  Range(AsciiUpper) \cup {"0", "1", "2", "3", "4", "5", "6", "7", "8", "9"}

(***************************************************************************)
(* C1                                                                      *)
(***************************************************************************)
\* C1, as stated: the correct field that parse_qb returns is empty or exactly
\* one uppercase half-width character, whatever token the pattern accepted.
C1_CorrectIsHalfWidthUpper ==
  Returned =>
    \/ R.correct = <<>>
    \/ Len(R.correct) = 1 /\ R.correct[1] \in HalfWidthUpper

\* C1, amended: the correct field is empty or exactly one character, which is
\* a half-width capital A-E when the token was a letter and otherwise one of
\* the digit tokens unchanged (half-width, full-width or circled 1-5).
C1_CorrectIsCapitalOrDigitToken ==
  Returned =>
    \/ R.correct = <<>>
    \/ /\ Len(R.correct) = 1
       /\ R.correct[1] \in {"A", "B", "C", "D", "E"} \cup DigitTokens

\* A full-width digit token has come back as it was written.
C1_Witness == Returned /\ R.correct = <<"uFF11">>

(***************************************************************************)
(* C2                                                                      *)
(***************************************************************************)
\* The first line of s that is the marker word with whitespace allowed on both
\* sides of it; 0 when there is none.
FirstMarkerLineAnyWs(s) ==
  LET ps == Pieces(s)
      at == {j \in 1..Len(ps) : strip(ps[j]) = KAISETSU}
  IN  IF at = {} THEN 0 ELSE CHOOSE j \in at : \A k \in at : j <= k

\* C2, as stated: a line that is only the marker word, whitespace before and
\* after it ignored, is the explanation marker: the lines before the first
\* such line are what the loop classifies, the lines after it make the
\* explanation, and without such a line the whole text is before.
C2_MarkerIgnoresSurroundingWhitespace ==
  Returned =>
    LET ps == Pieces(text)
        j == FirstMarkerLineAnyWs(text)
    IN  IF j = 0 THEN before = text /\ R.explanation = <<>>
        ELSE /\ lines = SubSeq(ps, 1, j - 1)
             /\ R.explanation = explanation_join(SubSeq(ps, j + 1, Len(ps)))

(***************************************************************************)
(* C3                                                                      *)
(***************************************************************************)
\* The enumerator tokens the claim lists: a-e and A-E, half-width and
\* full-width, and the digits 1-5, half-width, full-width and circled.
ClaimedEnumerators == LetterTokens \cup DigitTokens

\* The shape the claim describes: the marker symbol, whitespace, one
\* enumerator, whitespace and further text.
ClaimedChoiceShape(l) ==
  /\ ClassAt(l, 1, {"*"})
  /\ ClassAt(l, 2, Whitespace)
  /\ LET q == RunEnd(l, 2, Whitespace)
     IN  /\ ClassAt(l, q, ClaimedEnumerators)
         /\ ClassAt(l, q + 1, Whitespace)
         /\ RunEnd(l, q + 1, Whitespace) <= Len(l)

\* C3, as stated: every surviving line of before that has the claimed shape
\* and is no correct-answer line is in choices, without its marker, and is not
\* a line of question.
C3_EveryEnumeratorIsAChoice ==
  Returned =>
    \A l \in Range(Surviving(before)) :
      (ClaimedChoiceShape(l) /\ ~CORRECT_RE(l)) =>
        /\ lstrip(Tail(l)) \in Range(R.choices)
        /\ l \notin Range(Pieces(R.question))

(***************************************************************************)
(* C4                                                                      *)
(***************************************************************************)
\* C4: a step of the loop at a line that matches a noise pattern leaves
\* question, choices and correct as they were, whatever else the line matches.
C4_NoiseBeforeClassification ==
  [][(InLoop /\ is_noise(line)) => UNCHANGED <<question, choices, correct>>]_vars

\* The loop has passed a line that is noise and a choice line, then a line that
\* is noise and a correct-answer line, and holds no choice and no answer.
C4_Witness ==
  /\ pc = "loop"
  /\ i = 3
  /\ is_noise(lines[1]) /\ CHOICE_RE(strip(lines[1]))
  /\ is_noise(lines[2]) /\ CORRECT_RE(strip(lines[2]))
  /\ choices = <<>>
  /\ correct = <<>>
  /\ question = <<>>

(***************************************************************************)
(* C5                                                                      *)
(***************************************************************************)
\* C5: no line of the returned question matches a noise pattern, the choice
\* pattern or the correct-answer pattern.
C5_QuestionHasNoClassifiedLine ==
  Returned =>
    \A l \in Range(Pieces(R.question)) :
      ~is_noise(l) /\ ~CHOICE_RE(l) /\ ~CORRECT_RE(l)

\* A question came back from a text that also held a choice line and a noise
\* line.
C5_Witness ==
  /\ Returned
  /\ R.question # <<>>
  /\ R.choices # <<>>
  /\ \E l \in Range(Pieces(before)) : is_noise(l)

(***************************************************************************)
(* C6                                                                      *)
(***************************************************************************)
\* The surviving lines of before that match the choice pattern, in order, each
\* without its marker and the whitespace after it.
ExpectedChoices(s) ==
  LET sel == SelectSeq(Surviving(s), CHOICE_RE)
  IN  [k \in 1..Len(sel) |-> lstrip(Tail(sel[k]))]

\* C6: choices is exactly that sequence.
C6_ChoicesAreTheChoiceLines == Returned => R.choices = ExpectedChoices(before)

\* Two different choices came back, in the order of the text, and a noise line
\* that matches the choice pattern was left out.
C6_Witness ==
  /\ Returned
  /\ Len(R.choices) = 2
  /\ R.choices[1] # R.choices[2]
  /\ \E l \in Range(Trimmed(Pieces(before))) : CHOICE_RE(l) /\ is_noise(l)

(***************************************************************************)
(* C7                                                                      *)
(***************************************************************************)
\* The first line of s that is the marker word followed by nothing but
\* whitespace, which is the line re.search finds; 0 when there is none.
FirstMarkerLine(s) ==
  LET ps == Pieces(s)
      at == {j \in 1..Len(ps) : rstrip(ps[j]) = KAISETSU}
  IN  IF at = {} THEN 0 ELSE CHOOSE j \in at : \A k \in at : j <= k

\* The lines of ls that are neither blank nor noise, untrimmed, in order.
Kept(ls) ==
  LET keep(l) == Range(l) \ Whitespace # {} /\ ~is_noise(l)
  IN  SelectSeq(ls, keep)

\* The fields that the lines of ls give, by the rules of the loop.
CorrectLines(ls) == SelectSeq(ls, CORRECT_RE)

ChoiceLines(ls) ==
  LET keep(l) == ~CORRECT_RE(l) /\ CHOICE_RE(l)
  IN  SelectSeq(ls, keep)

QuestionLines(ls) ==
  LET keep(l) == ~CORRECT_RE(l) /\ ~CHOICE_RE(l)
  IN  SelectSeq(ls, keep)

LastCorrect(ls) ==
  LET cs == CorrectLines(ls)
  IN  IF cs = <<>> THEN <<>> ELSE <<CapitalOf(CorrectGroup(cs[Len(cs)]))>>

\* C7: with a marker line in the text, explanation is the lines after the
\* first marker without the blank and the noise lines, joined by newlines and
\* trimmed, and question, choices and correct are what the lines before the
\* marker give: no line after it reaches them.
C7_ExplanationIsTheFilteredRest ==
  (Returned /\ FirstMarkerLine(text) # 0) =>
    LET ps == Pieces(text)
        j == FirstMarkerLine(text)
        pre == Surviving(join(SubSeq(ps, 1, j - 1)))
    IN  /\ R.explanation = strip(join(Kept(SubSeq(ps, j + 1, Len(ps)))))
        /\ R.question = join(QuestionLines(pre))
        /\ R.choices = [k \in 1..Len(ChoiceLines(pre)) |-> lstrip(Tail(ChoiceLines(pre)[k]))]
        /\ R.correct = LastCorrect(pre)

\* A marker was followed by a line that was kept and by a noise line that was
\* dropped, and what came back is the kept line, trimmed.
C7_Witness ==
  /\ Returned
  /\ text = KAISETSU \o <<" ", NL>> \o RETRY \o <<NL, " ", "R", " ">>
  /\ R.explanation = <<"R">>

\* A correct-answer line and a choice line after the marker stay in the
\* explanation and set neither correct nor choices.
C7_WitnessAfterLines ==
  /\ Returned
  /\ FirstMarkerLine(text) = 1
  /\ Len(Pieces(R.explanation)) = 2
  /\ CORRECT_RE(Pieces(R.explanation)[1])
  /\ CHOICE_RE(Pieces(R.explanation)[2])
  /\ R.correct = <<>>
  /\ R.choices = <<>>

(***************************************************************************)
(* C8                                                                      *)
(***************************************************************************)
\* C8: correct is the normalized token of the last surviving correct-answer
\* line of before, and no such line is a line of question or an entry of
\* choices.
C8_LastCorrectAnswerWins ==
  Returned =>
    LET cs == CorrectLines(Surviving(before))
    IN  /\ R.correct = LastCorrect(Surviving(before))
        /\ \A l \in Range(cs) :
             l \notin Range(Pieces(R.question)) /\ l \notin Range(R.choices)

\* Three correct-answer lines with three different tokens: the last one came
\* back.
C8_Witness ==
  /\ Returned
  /\ LET cs == CorrectLines(Surviving(before))
     IN  /\ Len(cs) = 3
         /\ CapitalOf(CorrectGroup(cs[1])) = "A"
         /\ CapitalOf(CorrectGroup(cs[2])) = "uFF11"
         /\ CapitalOf(CorrectGroup(cs[3])) = "B"
  /\ R.correct = <<"B">>
  /\ R.question = <<>>
  /\ R.choices = <<>>

(***************************************************************************)
(* C9                                                                      *)
(***************************************************************************)
\* C9: without a marker line, explanation is empty and question is the
\* surviving lines of the text that are neither choice lines nor
\* correct-answer lines, in order, joined by single newlines.
C9_NoMarkerQuestionIsTheProse ==
  (Returned /\ FirstMarkerLine(text) = 0) =>
    /\ R.explanation = <<>>
    /\ R.question = join(QuestionLines(Surviving(text)))

\* Two different lines of prose, one of them trimmed, came back in the order
\* of the text, which also held a choice line.
C9_Witness ==
  /\ Returned
  /\ FirstMarkerLine(text) = 0
  /\ R.question = <<"R", NL, "Q">>
  /\ \E l \in Range(Pieces(text)) : CHOICE_RE(l)

(***************************************************************************)
(* C10                                                                     *)
(***************************************************************************)
\* Lines that are blank or noise by the list of section 4.1: the retry word,
\* the bare asterisk, and lines holding a circle mark before the word for
\* "correct answer".
BlankOrNoiseLines ==
  {<<>>, <<" ">>, RETRY, <<"*">>,
   <<"*", " ", "a", " ", "u25CB">> \o SEIKAI,
   SEIKAI \o <<"uFF1A", "a", "u25CB">> \o SEIKAI}

OnlyBlankOrNoise(s) == \A l \in Range(Pieces(s)) : l \in BlankOrNoiseLines

\* C10: on the empty text and on a text of blank and noise lines only,
\* parse_qb always has a next step until it returns, and it returns four empty
\* fields.
C10_BlankAndNoiseGiveEmptyFields ==
  OnlyBlankOrNoise(text) =>
    /\ ~Returned => ENABLED Next
    /\ Returned =>
         R = [question |-> <<>>, choices |-> <<>>, correct |-> <<>>, explanation |-> <<>>]

\* Three lines, each a different kind of noise, gave four empty fields.
C10_Witness ==
  /\ Returned
  /\ text = <<"*", NL>> \o RETRY \o <<NL, "*", " ", "a", " ", "u25CB">> \o SEIKAI
  /\ R = [question |-> <<>>, choices |-> <<>>, correct |-> <<>>, explanation |-> <<>>]

\* The empty text gave four empty fields.
C10_WitnessEmpty ==
  /\ Returned
  /\ text = <<>>
  /\ R = [question |-> <<>>, choices |-> <<>>, correct |-> <<>>, explanation |-> <<>>]

(***************************************************************************)
(* parse_qb as one function, for the handlers that call it                 *)
(***************************************************************************)
\* The for loop of parse_qb over the lines ls, from the locals q, ch and co.
RECURSIVE parse_loop(_, _, _, _)
parse_loop(ls, q, ch, co) ==
  IF ls = <<>> THEN [question |-> q, choices |-> ch, correct |-> co]
  ELSE LET l == strip(Head(ls))
           b == Branch(l)
       IN  IF b = "skip" THEN parse_loop(Tail(ls), q, ch, co)
           ELSE IF b = "correct"
             THEN parse_loop(Tail(ls), q, ch, <<upper(to_half(CorrectGroup(l)))>>)
           ELSE IF b = "choice"
             THEN parse_loop(Tail(ls), q, Append(ch, sub_marker(l)), co)
           ELSE parse_loop(Tail(ls), question_add(q, l), ch, co)

\* parse_qb(t)
parse_qb(t) ==
  LET m == explain_match(t)
      bef == IF m = <<>> THEN t ELSE SubSeq(t, 1, m[1].start - 1)
      expl == IF m = <<>> THEN <<>>
              ELSE explanation_join(splitlines(SubSeq(t, m[1].end, Len(t))))
      loc == parse_loop(splitlines(bef), <<>>, <<>>, <<>>)
  IN  [question |-> strip(loc.question), choices |-> loc.choices,
       correct |-> loc.correct, explanation |-> expl]

(***************************************************************************)
(* AnkiConnect: every request may fail or return any of a few results      *)
(***************************************************************************)
\* What the user may have in the input widget: nothing, a blank, and two cards.
CardA ==
  <<"Q", NL, "*", " ", "a", " ", "x", NL>> \o SEIKAI \o <<"uFF1A", "b", NL>>
    \o KAISETSU \o <<NL, " ", "R">>

CardB == <<"R", NL>>

AppTexts == {<<>>, <<" ", NL>>, CardA, CardB}

\* What the user may type into an edit widget.
EditTexts == {<<" ", "Z", NL>>}

\* The images the user may attach.
Images == {"img1", "img2"}

\* The candidates of get_basic_model_name, in its order (line 192); the two
\* accented names are written without their accents.
BasicNames == <<"Basic", "u57FAu672C", "Basico", "Basique", "Basis">>

\* The results a modelNames request may return.
ModelNamesResults == {<<>>, <<"Basis", "Basic">>, <<"Cloze">>, <<"Cloze", "Custom">>}

\* The results a modelFieldNames request may return.
FieldNamesResults == {<<>>, <<"Text">>, <<"Front", "Back">>}

\* One request in the history: who issued it, its action, whether it returned.
Req(by, action, ok) == [by |-> by, action |-> action, ok |-> ok]

\* The loop "for name in models" of get_basic_model_name from position k, the
\* requests so far being reqs: every way it can end, as the name returned and
\* the requests issued.  A failed request ends in the except clause: "Basic".
RECURSIVE model_loop(_, _, _)
model_loop(models, k, reqs) ==
  IF k > Len(models)
  THEN {[name |-> IF models # <<>> THEN models[1] ELSE "Basic", reqs |-> reqs]}
  ELSE {[name |-> "Basic", reqs |-> Append(reqs, Req("lookup", "modelFieldNames", FALSE))]}
       \cup UNION {
         IF Len(fn) >= 2
         THEN {[name |-> models[k],
                reqs |-> Append(reqs, Req("lookup", "modelFieldNames", TRUE))]}
         ELSE model_loop(models, k + 1,
                         Append(reqs, Req("lookup", "modelFieldNames", TRUE)))
         : fn \in FieldNamesResults}

\* get_basic_model_name(): every way it can end.
get_basic_model_name ==
  {[name |-> "Basic", reqs |-> <<Req("lookup", "modelNames", FALSE)>>]}
  \cup UNION {
    LET hits == {c \in 1..Len(BasicNames) : BasicNames[c] \in Range(models)}
        got == <<Req("lookup", "modelNames", TRUE)>>
    IN  IF hits # {}
        THEN {[name |-> BasicNames[CHOOSE c \in hits : \A d \in hits : c <= d],
               reqs |-> got]}
        ELSE model_loop(models, 1, got)
    : models \in ModelNamesResults}

\* The try block of _send_to_anki with its createDeck error ignored
send_requests_IgnoreCreateDeck ==
  UNION {
    UNION {
      LET pre == <<Req("send", "createDeck", ok)>> \o look.reqs
      IN  {[outcome |-> "fail", model_name |-> look.name,
            requests |-> Append(pre, Req("send", "modelFieldNames", FALSE))],
           [outcome |-> "fail", model_name |-> look.name,
            requests |-> pre \o <<Req("send", "modelFieldNames", TRUE),
                                  Req("send", "addNote", FALSE)>>],
           [outcome |-> "ok", model_name |-> look.name,
            requests |-> pre \o <<Req("send", "modelFieldNames", TRUE),
                                  Req("send", "addNote", TRUE)>>]}
      : look \in get_basic_model_name}
    : ok \in BOOLEAN}

\* The try block of _send_to_anki (lines 634-646): every way it can run, as
\* the requests issued and how it ended.  Whatever modelFieldNames returns,
\* the two field names are found and addNote is requested.
send_requests ==
  {[outcome |-> "fail", model_name |-> "",
    requests |-> <<Req("send", "createDeck", FALSE)>>]}
  \cup UNION {
    LET pre == <<Req("send", "createDeck", TRUE)>> \o look.reqs
    IN  {[outcome |-> "fail", model_name |-> look.name,
          requests |-> Append(pre, Req("send", "modelFieldNames", FALSE))],
         [outcome |-> "fail", model_name |-> look.name,
          requests |-> pre \o <<Req("send", "modelFieldNames", TRUE),
                                Req("send", "addNote", FALSE)>>],
         [outcome |-> "ok", model_name |-> look.name,
          requests |-> pre \o <<Req("send", "modelFieldNames", TRUE),
                                Req("send", "addNote", TRUE)>>]}
    : look \in get_basic_model_name}

(***************************************************************************)
(* The handlers of the App, one action each                                *)
(***************************************************************************)
\* The history entry of a handler that is not _send_to_anki.
Ran(op) ==
  [op |-> op, outcome |-> "", model_name |-> "", requests |-> <<>>, p |-> <<>>,
   img_f |-> <<>>, img_b |-> <<>>, fresh_f |-> FALSE, fresh_b |-> FALSE]

\* widget.get("1.0", "end").strip(): the content, tk's final newline, stripped
get_stripped(content) == strip(content \o <<NL>>)

\* The user replaces the content of the input widget.
TypeInput ==
  /\ \E t \in AppTexts : txt_input' = t
  /\ last' = Ran("input")
  /\ UNCHANGED <<parsed, img_front, img_back, edit_vars, nb, lbl_result,
                 fresh_front, fresh_back, adds>>
  /\ UNCHANGED lbl_status
  /\ UNCHANGED pvars

\* _do_parse on blank input: the warning, and nothing else (lines 512-515)
DoParseBlank ==
  /\ get_stripped(txt_input) = <<>>
  /\ last' = Ran("parse")
  /\ UNCHANGED <<txt_input, parsed, img_front, img_back, edit_vars, nb, lbl_result,
                 fresh_front, fresh_back, adds>>
  /\ UNCHANGED lbl_status
  /\ UNCHANGED pvars

\* _refresh_preview keeping a panel that is already there
new_panel_KeepOld(old) == IF old = <<>> THEN <<[image |-> <<>>]>> ELSE old

\* _refresh_preview: the old panel is destroyed and a new ImagePanel, which
\* holds no image, takes its place (lines 521-524, 560, 574)
new_panel(old) == <<[image |-> <<>>]>>

\* _refresh_preview: the three edit widgets, filled from p (lines 588-605)
new_edit_vars(p) ==
  <<[question |-> p.question, correct |-> p.correct, explanation |-> p.explanation]>>

\* _do_parse on other input (lines 516-518): parse, _refresh_preview, tab 1
DoParse ==
  /\ get_stripped(txt_input) # <<>>
  /\ parsed' = <<parse_qb(get_stripped(txt_input))>>
  /\ img_front' = new_panel(img_front)
  /\ img_back' = new_panel(img_back)
  /\ edit_vars' = new_edit_vars(parse_qb(get_stripped(txt_input)))
  /\ nb' = 1
  /\ last' = Ran("parse")
  /\ fresh_front' = FALSE
  /\ fresh_back' = FALSE
  /\ adds' = 0
  /\ UNCHANGED <<txt_input, lbl_result>>
  /\ UNCHANGED lbl_status
  /\ UNCHANGED pvars

\* ImagePanel._set_image on the front panel (lines 318-321)
SetImageFront ==
  /\ img_front # <<>>
  /\ \E img \in Images : img_front' = <<[image |-> <<img>>]>>
  /\ fresh_front' = TRUE
  /\ last' = Ran("image")
  /\ UNCHANGED <<txt_input, parsed, img_back, edit_vars, nb, lbl_result,
                 fresh_back, adds>>
  /\ UNCHANGED lbl_status
  /\ UNCHANGED pvars

\* ImagePanel._set_image on the back panel
SetImageBack ==
  /\ img_back # <<>>
  /\ \E img \in Images : img_back' = <<[image |-> <<img>>]>>
  /\ fresh_back' = TRUE
  /\ last' = Ran("image")
  /\ UNCHANGED <<txt_input, parsed, img_front, edit_vars, nb, lbl_result,
                 fresh_front, adds>>
  /\ UNCHANGED lbl_status
  /\ UNCHANGED pvars

\* ImagePanel._clear on the front panel (lines 323-326)
ClearFront ==
  /\ img_front # <<>>
  /\ img_front' = <<[image |-> <<>>]>>
  /\ fresh_front' = FALSE
  /\ last' = Ran("clear")
  /\ UNCHANGED <<txt_input, parsed, img_back, edit_vars, nb, lbl_result,
                 fresh_back, adds>>
  /\ UNCHANGED lbl_status
  /\ UNCHANGED pvars

\* ImagePanel._clear on the back panel
ClearBack ==
  /\ img_back # <<>>
  /\ img_back' = <<[image |-> <<>>]>>
  /\ fresh_back' = FALSE
  /\ last' = Ran("clear")
  /\ UNCHANGED <<txt_input, parsed, img_front, edit_vars, nb, lbl_result,
                 fresh_front, adds>>
  /\ UNCHANGED lbl_status
  /\ UNCHANGED pvars

\* The user's edit that is also written into _parsed
EditField_WritesBack ==
  /\ edit_vars # <<>>
  /\ parsed # <<>>
  /\ \E key \in {"question", "correct", "explanation"} :
       \E v \in EditTexts :
         /\ edit_vars' = <<[edit_vars[1] EXCEPT ![key] = v]>>
         /\ parsed' = <<[parsed[1] EXCEPT ![key] = get_stripped(v)]>>
  /\ last' = Ran("edit")
  /\ UNCHANGED <<txt_input, img_front, img_back, nb, lbl_result,
                 fresh_front, fresh_back, adds>>
  /\ UNCHANGED lbl_status
  /\ UNCHANGED pvars

\* The user replaces the content of one edit widget (lines 597-605).
EditField ==
  /\ edit_vars # <<>>
  /\ \E key \in {"question", "correct", "explanation"} :
       \E v \in EditTexts : edit_vars' = <<[edit_vars[1] EXCEPT ![key] = v]>>
  /\ last' = Ran("edit")
  /\ UNCHANGED <<txt_input, parsed, img_front, img_back, nb, lbl_result,
                 fresh_front, fresh_back, adds>>
  /\ UNCHANGED lbl_status
  /\ UNCHANGED pvars

\* The user picks a tab, or the back button picks tab 0 (line 491).
SelectTab ==
  /\ \E k \in {0, 1} : nb' = k
  /\ last' = Ran("tab")
  /\ UNCHANGED <<txt_input, parsed, img_front, img_back, edit_vars, lbl_result,
                 fresh_front, fresh_back, adds>>
  /\ UNCHANGED lbl_status
  /\ UNCHANGED pvars

\* _get_edited() (lines 607-615)
get_edited ==
  IF edit_vars = <<>> THEN parsed[1]
  ELSE [question    |-> get_stripped(edit_vars[1].question),
        choices     |-> parsed[1].choices,
        correct     |-> get_stripped(edit_vars[1].correct),
        explanation |-> get_stripped(edit_vars[1].explanation)]

\* self._img_front.image if self._img_front else None (lines 628-629)
image_of(panel) == IF panel # <<>> THEN panel[1].image ELSE <<>>

\* The history entry of a _send_to_anki that went past its first test.
Sent(run) ==
  [op |-> "send", outcome |-> run.outcome, model_name |-> run.model_name,
   requests |-> run.requests,
   p |-> <<get_edited>>, img_f |-> image_of(img_front), img_b |-> image_of(img_back),
   fresh_f |-> fresh_front, fresh_b |-> fresh_back]

\* _send_to_anki with nothing parsed: the warning, and nothing else (618-620)
SendNotParsed ==
  /\ parsed = <<>>
  /\ last' = [Ran("send") EXCEPT !.outcome = "blocked"]
  /\ UNCHANGED <<txt_input, parsed, img_front, img_back, edit_vars, nb, lbl_result,
                 fresh_front, fresh_back, adds>>
  /\ UNCHANGED lbl_status
  /\ UNCHANGED pvars

\* _send_to_anki whose addNote returned, without the reset of _parsed
SendAdded_KeepsParsed ==
  /\ parsed # <<>>
  /\ \E run \in send_requests :
       /\ run.outcome = "ok"
       /\ last' = Sent(run)
  /\ lbl_result' = "ok"
  /\ txt_input' = <<>>
  /\ nb' = 0
  /\ adds' = adds + 1
  /\ UNCHANGED <<parsed, img_front, img_back, edit_vars, fresh_front, fresh_back>>
  /\ UNCHANGED lbl_status
  /\ UNCHANGED pvars

\* _send_to_anki whose addNote returned (lines 647-650)
SendAdded ==
  /\ parsed # <<>>
  /\ \E run \in send_requests :
       /\ run.outcome = "ok"
       /\ last' = Sent(run)
  /\ lbl_result' = "ok"
  /\ txt_input' = <<>>
  /\ parsed' = <<>>
  /\ nb' = 0
  /\ adds' = adds + 1
  /\ UNCHANGED <<img_front, img_back, edit_vars, fresh_front, fresh_back>>
  /\ UNCHANGED lbl_status
  /\ UNCHANGED pvars

\* _send_to_anki that ended in its except clause (lines 651-656)
SendFailed ==
  /\ parsed # <<>>
  /\ \E run \in send_requests :
       /\ run.outcome = "fail"
       /\ last' = Sent(run)
  /\ lbl_result' = "fail"
  /\ UNCHANGED <<txt_input, parsed, img_front, img_back, edit_vars, nb,
                 fresh_front, fresh_back, adds>>
  /\ UNCHANGED lbl_status
  /\ UNCHANGED pvars

\* _check_anki (lines 499-509): one "version" request, shown in lbl_status
CheckAnki ==
  /\ \E ok \in BOOLEAN :
       /\ lbl_status' = IF ok THEN "ok" ELSE "failed"
       /\ last' = [Ran("check") EXCEPT !.requests = <<Req("check", "version", ok)>>]
  /\ UNCHANGED <<txt_input, parsed, img_front, img_back, edit_vars, nb, lbl_result,
                 fresh_front, fresh_back, adds>>
  /\ UNCHANGED pvars

\* The parser is not running while the handlers of the App are looked at.
InitApp ==
  /\ AppInit
  /\ text = <<>>
  /\ pc = "start"
  /\ before = <<>>
  /\ explanation = <<>>
  /\ lines = <<>>
  /\ i = 1
  /\ question = <<>>
  /\ choices = <<>>
  /\ correct = <<>>
  /\ ret = <<>>

NextApp ==
  \/ TypeInput
  \/ DoParseBlank
  \/ DoParse
  \/ SetImageFront
  \/ SetImageBack
  \/ ClearFront
  \/ ClearBack
  \/ EditField
  \/ SelectTab
  \/ SendNotParsed
  \/ SendAdded
  \/ SendFailed
  \/ CheckAnki

SpecApp == InitApp /\ [][NextApp]_vars

(***************************************************************************)
(* The claims about the App                                                *)
(***************************************************************************)
\* A handler ran in this step; last' names it.
ParsedStep == last'.op = "parse" /\ get_stripped(txt_input) # <<>>

BlankParseStep == last'.op = "parse" /\ get_stripped(txt_input) = <<>>

SendStep == last'.op = "send"

\* The record a send used is the one _get_edited describes: the stripped
\* content of the three edit widgets and the choices of _parsed.
UsedEditedRecord ==
  IF last'.p = <<>> \/ edit_vars = <<>> \/ parsed = <<>> THEN FALSE
  ELSE /\ last'.p[1].question = get_stripped(edit_vars[1].question)
       /\ last'.p[1].correct = get_stripped(edit_vars[1].correct)
       /\ last'.p[1].explanation = get_stripped(edit_vars[1].explanation)
       /\ last'.p[1].choices = parsed[1].choices

\* C11: manual correction never changes the parser's output.  In every step,
\* App._parsed either stays as it is, or becomes what parse_qb returns for the
\* stripped input (a _do_parse on non-blank input), or becomes None in a send
\* whose addNote succeeded; an edit leaves it alone, and a send that issues
\* requests uses a record built from the edit widgets and the parsed choices.
C11_EditsNeverReachParsed ==
  [][ /\ (parsed' # parsed =>
            IF ParsedStep THEN parsed' = <<parse_qb(get_stripped(txt_input))>>
            ELSE SendStep /\ last'.outcome = "ok" /\ parsed' = <<>>)
      /\ (last'.op = "edit" => parsed' = parsed)
      /\ (SendStep /\ last'.requests # <<>> => UsedEditedRecord)
    ]_vars

\* A send used an edited record that differs from _parsed in question, correct
\* and explanation, failed, and _parsed is still what parse_qb returned.
C11_Witness ==
  /\ last.op = "send"
  /\ last.outcome = "fail"
  /\ parsed = <<parse_qb(get_stripped(CardA))>>
  /\ last.p # <<>>
  /\ IF last.p = <<>> THEN FALSE
     ELSE /\ last.p[1].question = <<"Z">>
          /\ last.p[1].correct = <<"Z">>
          /\ last.p[1].explanation = <<"Z">>
          /\ last.p[1].choices = parsed[1].choices
          /\ parsed[1].question = <<"Q">>
          /\ parsed[1].correct = <<"B">>

\* The addNote requests of the send that has just run that returned.
AddedNotes(reqs) ==
  {k \in 1..Len(reqs) : reqs[k].action = "addNote" /\ reqs[k].ok}

\* C12: each successful parse leads to at most one successful addNote.  At
\* most one addNote has succeeded since the last _do_parse on non-blank input;
\* a send while _parsed is None issues no request; a send whose addNote
\* succeeded had a _parsed, sets it to None and empties the input text; a
\* _do_parse on blank input leaves _parsed as it is.
C12_OneAddNotePerParse ==
  [][ /\ adds' <= 1
      /\ (SendStep /\ parsed = <<>> => last'.requests = <<>>)
      /\ (SendStep /\ AddedNotes(last'.requests) # {} =>
            /\ Cardinality(AddedNotes(last'.requests)) = 1
            /\ parsed # <<>>
            /\ parsed' = <<>>
            /\ txt_input' = <<>>
            /\ adds' = adds + 1)
      /\ (~ParsedStep /\ ~SendStep => adds' = adds)
      /\ (BlankParseStep => parsed' = parsed)
    ]_vars

\* A send has added the one note of a parse, _parsed is None and the input
\* empty again, and the send pressed after it issued no request.
C12_Witness ==
  /\ last.op = "send"
  /\ last.outcome = "blocked"
  /\ last.requests = <<>>
  /\ adds = 1
  /\ parsed = <<>>
  /\ txt_input = <<>>
  /\ lbl_result = "ok"

\* The requests of the send that has just run: the failed ones, and those
\* among them that _send_to_anki made itself (not get_basic_model_name).
Failed(reqs) == {k \in 1..Len(reqs) : ~reqs[k].ok}

FailedOwn(reqs) == {k \in Failed(reqs) : reqs[k].by = "send"}

\* The send that has just run left _parsed, the input text, the selected tab
\* and the attached images as they were.
SendLeftCard ==
  /\ parsed' = parsed
  /\ txt_input' = txt_input
  /\ nb' = nb
  /\ img_front' = img_front
  /\ img_back' = img_back

\* addNote is the last request of the send, after the createDeck and the
\* modelFieldNames of the send, and every request before it returned without
\* error (own: every request before it that _send_to_anki made itself).
AddNoteAfter(reqs, own) ==
  \A k \in 1..Len(reqs) :
    reqs[k].action = "addNote" =>
      /\ k = Len(reqs)
      /\ \E j \in 1..(k - 1) : reqs[j] = Req("send", "createDeck", TRUE)
      /\ \E j \in 1..(k - 1) : reqs[j] = Req("send", "modelFieldNames", TRUE)
      /\ \A j \in 1..(k - 1) : (own => reqs[j].by = "send") => reqs[j].ok

\* C13 as claimed: within one send, addNote is requested only after every
\* earlier request returned without error; a failed request is the last
\* request of its send, and the send then leaves _parsed, the input text, the
\* selected tab and the attached images unchanged.
C13_AnyFailedRequestEndsTheSend ==
  [][ SendStep =>
        /\ AddNoteAfter(last'.requests, FALSE)
        /\ \A k \in Failed(last'.requests) : k = Len(last'.requests)
        /\ (Failed(last'.requests) # {} => SendLeftCard)
    ]_vars

\* C13 as amended: a failed createDeck, modelFieldNames of the send itself or
\* addNote is the last request of its send, and the send then leaves the card
\* unchanged; addNote comes after the createDeck and modelFieldNames that
\* returned; a failed request inside get_basic_model_name is followed by the
\* send's modelFieldNames for the model "Basic".
C13_OwnFailedRequestEndsTheSend ==
  [][ SendStep =>
        /\ AddNoteAfter(last'.requests, TRUE)
        /\ \A k \in FailedOwn(last'.requests) : k = Len(last'.requests)
        /\ (FailedOwn(last'.requests) # {} => last'.outcome = "fail")
        /\ (last'.outcome = "fail" => SendLeftCard)
        /\ \A k \in Failed(last'.requests) \ FailedOwn(last'.requests) :
             /\ k < Len(last'.requests)
             /\ last'.requests[k + 1].by = "send"
             /\ last'.requests[k + 1].action = "modelFieldNames"
             /\ last'.model_name = "Basic"
    ]_vars

\* A send went on after modelNames failed inside get_basic_model_name, asked
\* modelFieldNames for "Basic", and ended when its addNote failed; the card is
\* still there.
C13_Witness ==
  /\ last.op = "send"
  /\ last.outcome = "fail"
  /\ last.model_name = "Basic"
  /\ last.requests = <<Req("send", "createDeck", TRUE),
                       Req("lookup", "modelNames", FALSE),
                       Req("send", "modelFieldNames", TRUE),
                       Req("send", "addNote", FALSE)>>
  /\ parsed # <<>>
  /\ txt_input = CardA
  /\ nb = 1
  /\ image_of(img_front) = <<"img1">>
  /\ lbl_result = "fail"

\* An image the send used was attached, and not cleared, after the last
\* _do_parse that parsed.
UsedFreshImages ==
  /\ last'.img_f = image_of(img_front)
  /\ last'.img_b = image_of(img_back)
  /\ (last'.img_f # <<>> => last'.fresh_f)
  /\ (last'.img_b # <<>> => last'.fresh_b)

\* C14: an image attached to one card is never sent with a later card.  A
\* _do_parse on non-blank input leaves two panels that hold no image; a send
\* issues requests only when _parsed is set; the images such a send uses are
\* the images of the two panels, each attached after the last parsing
\* _do_parse and not cleared since.
C14_ImagesNeverOutliveTheirCard ==
  [][ /\ (ParsedStep =>
            /\ img_front' = <<[image |-> <<>>]>>
            /\ img_back' = <<[image |-> <<>>]>>)
      /\ (SendStep /\ last'.requests # <<>> => parsed # <<>> /\ UsedFreshImages)
      /\ (image_of(img_front') # <<>> => fresh_front')
      /\ (image_of(img_back') # <<>> => fresh_back')
    ]_vars

\* A send for the second card text issued requests with a front image that
\* was attached after that card was parsed, and with no back image.
C14_Witness ==
  /\ last.op = "send"
  /\ last.outcome = "fail"
  /\ last.requests # <<>>
  /\ last.img_f = <<"img2">>
  /\ last.fresh_f
  /\ last.img_b = <<>>
  /\ lbl_result = "fail"
  /\ parsed = <<parse_qb(get_stripped(CardB))>>

====
